---- MODULE Spec2Model ----
(***************************************************************************)
(* Model of pso/main/runexperiments.py (the experiment scheduler) and      *)
(* pso/main/fixhashes.py (the hash repair pass).                           *)
(*                                                                         *)
(* A Python str is a sequence of one-character strings, so that slicing,   *)
(* substring search, splitting and byte-wise comparison are computed.      *)
(***************************************************************************)
EXTENDS Integers, Sequences, FiniteSets, TLC

(***************************************************************************)
(* Bounds of the model.                                                    *)
(***************************************************************************)
\* samples per specification (num_samples is 20 in the source)
NumSamples == 1
\* invocations of the scheduler in one behaviour
MaxInvocations == 2
\* groups handed to gen_combinations
MaxGroups == 3
\* largest group cardinality handed to gen_combinations
MaxCard == 3
\* tokens in a flag sequence handed to the canonicalizer
MaxTokens == 2
\* files in the directory the repair pass walks
MaxFiles == 2
\* settings listed for a single name handed to gen_experiments
MaxVals == 2
\* value tuples listed for a tuple of names handed to gen_experiments
MaxTuples == 1

(***************************************************************************)
(* Python str primitives.                                                  *)
(***************************************************************************)
\* ord(c) for the characters the model uses (ASCII)
Ord(c) ==
  CASE c = "\n" -> 10
    [] c = " " -> 32
    [] c = "#" -> 35
    [] c = "-" -> 45
    [] c = "0" -> 48
    [] c = "1" -> 49
    [] c = "2" -> 50
    [] c = "=" -> 61
    [] c = "D" -> 68
    [] c = "E" -> 69
    [] c = "N" -> 78
    [] c = "O" -> 79
    [] c = "a" -> 97
    [] c = "b" -> 98
    [] c = "g" -> 103
    [] c = "n" -> 110
    [] c = "o" -> 111
    [] c = "x" -> 120
    [] c = "y" -> 121

\* str.__lt__: byte-wise lexicographic order, a proper prefix is smaller
RECURSIVE StrLess(_, _)
StrLess(s, t) ==
  IF t = <<>> THEN FALSE
  ELSE IF s = <<>> THEN TRUE
  ELSE IF Head(s) = Head(t) THEN StrLess(Tail(s), Tail(t))
  ELSE Ord(Head(s)) < Ord(Head(t))

\* insertion of one str into a sorted list, after its equals (sorted is stable)
RECURSIVE Insert(_, _)
Insert(x, l) ==
  IF l = <<>> THEN <<x>>
  ELSE IF StrLess(x, Head(l)) THEN <<x>> \o l
  ELSE <<Head(l)>> \o Insert(x, Tail(l))

RECURSIVE SortFrom(_, _)
SortFrom(l, acc) ==
  IF l = <<>> THEN acc ELSE SortFrom(Tail(l), Insert(Head(l), acc))

\* a plausible slip: the tokens are used in the order they were produced
SortedUnsorted(l) == l

\* sorted(l) for a list of str
Sorted(l) == SortFrom(l, <<>>)

\* sep.join(l)
RECURSIVE Join(_, _)
Join(sep, l) ==
  IF l = <<>> THEN <<>>
  ELSE IF Len(l) = 1 THEN Head(l)
  ELSE Head(l) \o sep \o Join(sep, Tail(l))

\* str.isspace for one character
IsSpace(c) == c \in {" ", "\n"}

\* s.split(): maximal runs of non-whitespace characters
RECURSIVE SplitFrom(_, _, _)
SplitFrom(s, cur, acc) ==
  IF s = <<>> THEN (IF cur = <<>> THEN acc ELSE Append(acc, cur))
  ELSE IF IsSpace(Head(s))
    THEN SplitFrom(Tail(s), <<>>, IF cur = <<>> THEN acc ELSE Append(acc, cur))
    ELSE SplitFrom(Tail(s), Append(cur, Head(s)), acc)

Split(s) == SplitFrom(s, <<>>, <<>>)

\* s.lstrip(chars): drops every leading character that is in chars
RECURSIVE LStrip(_, _)
LStrip(s, chars) ==
  IF s # <<>> /\ Head(s) \in chars THEN LStrip(Tail(s), chars) ELSE s

\* s.startswith(p)
StartsWith(s, p) == Len(s) >= Len(p) /\ SubSeq(s, 1, Len(p)) = p

\* sub in s
Contains(s, sub) ==
  \E i \in 0..(Len(s) - Len(sub)) : SubSeq(s, i + 1, i + Len(sub)) = sub

\* f.readline() on a file holding s: up to and including the first newline
RECURSIVE ReadLine(_)
ReadLine(s) ==
  IF s = <<>> THEN <<>>
  ELSE IF Head(s) = "\n" THEN <<"\n">>
  ELSE <<Head(s)>> \o ReadLine(Tail(s))

\* hashlib.md5(s).hexdigest(): an ideal (collision-free) digest of s
Md5(s) == <<"md5", s>>

\* " ".join(flags) as both programs build the hashed string
FlagStr(flags) == Join(<<" ">>, flags)

(***************************************************************************)
(* gen_combinations: the mixed-radix counter.                              *)
(***************************************************************************)
\* a plausible slip: the carry resets the digit but stops at the first group
\* it overflows instead of moving on to the group before it
RECURSIVE CarryNoPropagate(_, _, _)
CarryNoPropagate(cur, counts, i) ==
  IF i = 0 THEN [cur |-> cur, more |-> FALSE]
  ELSE IF cur[i] + 1 < counts[i]
    THEN [cur |-> [cur EXCEPT ![i] = cur[i] + 1], more |-> TRUE]
    ELSE [cur |-> [cur EXCEPT ![i] = 0], more |-> FALSE]

\* a plausible slip: the loop runs over xrange(len(counts)), so the first
\* group varies fastest (i digits are left, the one at hand is the
\* (len(counts) - i + 1)-th)
RECURSIVE CarryFirstFastest(_, _, _)
CarryFirstFastest(cur, counts, i) ==
  IF i = 0 THEN [cur |-> cur, more |-> FALSE]
  ELSE LET p == Len(counts) - i + 1
       IN  IF cur[p] + 1 < counts[p]
             THEN [cur |-> [cur EXCEPT ![p] = cur[p] + 1], more |-> TRUE]
             ELSE CarryFirstFastest([cur EXCEPT ![p] = 0], counts, i - 1)

\* the for/else of one resumption: digits i, i-1, .. 1 (the source's i-1 .. 0);
\* more = FALSE is the else branch, every digit wrapped
RECURSIVE Carry(_, _, _)
Carry(cur, counts, i) ==
  IF i = 0 THEN [cur |-> cur, more |-> FALSE]
  ELSE IF cur[i] + 1 < counts[i]
    THEN [cur |-> [cur EXCEPT ![i] = cur[i] + 1], more |-> TRUE]
    ELSE Carry([cur EXCEPT ![i] = 0], counts, i - 1)

\* the check that raises ValueError
CountsValid(counts) == \A i \in 1..Len(counts) : counts[i] > 0

\* cur = [0] * len(counts)
Zeros(counts) == [i \in 1..Len(counts) |-> 0]

\* every tuple the generator yields, in order, for valid counts
RECURSIVE CombinationsFrom(_, _, _)
CombinationsFrom(cur, counts, acc) ==
  LET nxt == Carry(cur, counts, Len(counts))
  IN  IF nxt.more THEN CombinationsFrom(nxt.cur, counts, Append(acc, nxt.cur))
      ELSE acc

gen_combinations(counts) == CombinationsFrom(Zeros(counts), counts, <<Zeros(counts)>>)

(***************************************************************************)
(* Python values of the experiments mapping, tagged with their type.       *)
(***************************************************************************)
PyStr(s) == [t |-> "str", v |-> s]
PyNone == [t |-> "none", v |-> <<>>]
PyBool(b) == [t |-> "bool", v |-> IF b THEN <<"T">> ELSE <<"F">>]
PyTuple(xs) == [t |-> "tuple", v |-> xs]
PyList(xs) == [t |-> "list", v |-> xs]
\* isinstance(x, (list, tuple))
IsListOrTuple(x) == x.t \in {"list", "tuple"}

\* one pass of the clean-up loop over an item (k, values)
Normalize(item) ==
  LET isstr == item.k.t = "str"
      k1 == IF isstr THEN <<item.k.v>> ELSE item.k.v
      v1 == IF isstr /\ ~IsListOrTuple(item.values)
              THEN PyList(<<item.values>>) ELSE item.values
      v2 == IF Len(k1) = 1
              THEN [i \in 1..Len(v1.v) |->
                      IF IsListOrTuple(v1.v[i]) THEN v1.v[i].v ELSE <<v1.v[i]>>]
              ELSE [i \in 1..Len(v1.v) |-> v1.v[i].v]
  IN  [k |-> k1, values |-> v2, ktuple |-> ~isstr]

\* a plausible slip: every bool is treated as a switch that is on
TokenNoNegation(flag, setting) ==
  IF setting.t = "none" THEN <<>>
  ELSE IF setting.t = "bool" THEN << <<"-">> \o flag >>
  ELSE << <<"-">> \o flag \o <<"=">> \o setting.v >>

\* the token one (flag, setting) pair yields: a list of zero or one str
Token(flag, setting) ==
  IF setting.t = "none" THEN <<>>
  ELSE IF setting.t = "bool"
    THEN (IF setting.v = <<"T">> THEN << <<"-">> \o flag >>
                                 ELSE << <<"-", "n", "o">> \o flag >>)
    ELSE << <<"-">> \o flag \o <<"=">> \o setting.v >>

RECURSIVE GroupTokens(_, _)
GroupTokens(flags, values) ==
  IF flags = <<>> \/ values = <<>> THEN <<>>
  ELSE Token(Head(flags), Head(values)) \o GroupTokens(Tail(flags), Tail(values))

\* what evaluating the raise statement of iterflags produces: the format
\* "%r:%r" % flags succeeds only for a tuple of two names; otherwise the
\* formatting itself raises TypeError
RaiseKind(g) ==
  IF g.ktuple /\ Len(g.k) = 2 THEN "ValueError" ELSE "TypeError"

\* iterflags(combo) over normalized items: [err, flags]
RECURSIVE iterflags(_, _, _)
iterflags(items, combo, i) ==
  IF i > Len(items) THEN [err |-> "none", flags |-> <<>>]
  ELSE LET g == items[i]
           sel == g.values[combo[i] + 1]
       IN  IF Len(g.k) # Len(sel) THEN [err |-> RaiseKind(g), flags |-> <<>>]
           ELSE LET rest == iterflags(items, combo, i + 1)
                IN  [err |-> rest.err, flags |-> GroupTokens(g.k, sel) \o rest.flags]

\* the specifications gen_experiments yields until it stops or raises:
\* [err, specs]; the counts are read when the generator first runs,
\* after the clean-up loop has rewritten items
RECURSIVE ExperimentsFrom(_, _, _)
ExperimentsFrom(items, combos, acc) ==
  IF combos = <<>> THEN [err |-> "none", specs |-> acc]
  ELSE LET r == iterflags(items, Head(combos), 1)
       IN  IF r.err # "none" THEN [err |-> r.err, specs |-> acc]
           ELSE ExperimentsFrom(items, Tail(combos), Append(acc, Sorted(r.flags)))

gen_experiments(raw) ==
  LET items == [i \in 1..Len(raw) |-> Normalize(raw[i])]
      counts == [i \in 1..Len(items) |-> Len(items[i].values)]
  IN  IF ~CountsValid(counts) THEN [err |-> "ValueError", specs |-> <<>>]
      ELSE ExperimentsFrom(items, gen_combinations(counts), <<>>)

(***************************************************************************)
(* The output directory: a function from the names of the files that       *)
(* exist to their contents.  A name is the tuple of its "-"-separated      *)
(* parts.                                                                  *)
(***************************************************************************)
SKIP == "skip"
RERUN == "rerun"
RUN == "run"
\* runstate does not return: print the seek error and sys.exit(1)
EXIT == "exit"

DONE_STR == <<"#", " ", "D", "O", "N", "E">>

Exists(d, name) == name \in DOMAIN d

\* the file name holds content c afterwards (created or replaced)
WriteFile(d, name, c) ==
  [n \in DOMAIN d \cup {name} |-> IF n = name THEN c ELSE d[n]]

\* os.rename(old, new): new is replaced silently when it exists
Rename(d, old, new) ==
  [n \in (DOMAIN d \ {old}) \cup {new} |-> IF n = new THEN d[old] ELSE d[n]]

\* f.seek(-n, 2); f.read(): IOError when the file is shorter than n
Tail8(c) == SubSeq(c, Len(c) - (Len(DONE_STR) + 2) + 1, Len(c))

\* a plausible slip: the IOError of the seek is taken for "not done"
runstateShortIsRerun(d, outname) ==
  IF Exists(d, outname)
    THEN IF Len(d[outname]) < Len(DONE_STR) + 2 THEN RERUN
         ELSE IF ~Contains(Tail8(d[outname]), <<"\n">> \o DONE_STR) THEN RERUN
         ELSE SKIP
    ELSE RUN

runstate(d, outname) ==
  IF Exists(d, outname)
    THEN IF Len(d[outname]) < Len(DONE_STR) + 2 THEN EXIT
         ELSE IF ~Contains(Tail8(d[outname]), <<"\n">> \o DONE_STR) THEN RERUN
         ELSE SKIP
    ELSE RUN

Digits == <<"0", "1", "2", "3", "4", "5", "6", "7", "8", "9">>
\* "{sample:02d}"
Fmt02(n) == <<Digits[(n \div 10) + 1], Digits[(n % 10) + 1]>>

PREFIX == <<"e", "x", "p">>

\* a plausible slip: the flags are joined without the space
OutNameUnspaced(flags, sample) == <<PREFIX, Md5(Join(<<>>, flags)), Fmt02(sample)>>

\* "out/exp-{digest}-{sample:02d}" for the digest of the joined flags
OutName(flags, sample) == <<PREFIX, Md5(FlagStr(flags)), Fmt02(sample)>>

\* what run prints first: "# " + joined flags, and print's newline
Header(flags) == <<"#", " ">> \o FlagStr(flags) \o <<"\n">>

\* print("# DONE", file=f)
SentinelLine == DONE_STR \o <<"\n">>

(***************************************************************************)
(* The experiments mappings the scheduler is run on: small stand-ins for   *)
(* the literal of gen_experiments, with a scalar-valued name, a list-      *)
(* valued name, a correlated group with None and True, both iteration      *)
(* orders of a dict, and the malformed shapes the code raises on.          *)
(***************************************************************************)
Item(k, values) == [k |-> k, values |-> values]

ItemA == Item(PyStr(<<"a">>), PyList(<<PyStr(<<"x">>), PyStr(<<"y">>)>>))
ItemB == Item(PyStr(<<"b">>), PyStr(<<"1">>))
ItemNG ==
  Item(PyTuple(<< <<"n">>, <<"g">> >>),
       PyList(<<PyTuple(<<PyStr(<<"1">>), PyNone>>),
                PyTuple(<<PyStr(<<"1">>), PyBool(TRUE)>>)>>))
\* a value tuple shorter than its name tuple
ItemShort ==
  Item(PyTuple(<< <<"n">>, <<"g">> >>), PyList(<<PyTuple(<<PyStr(<<"1">>)>>)>>))
\* a single name whose second value is a pair
ItemLong ==
  Item(PyStr(<<"a">>),
       PyList(<<PyStr(<<"x">>), PyTuple(<<PyStr(<<"x">>), PyStr(<<"y">>)>>)>>))
\* a name with no value at all
ItemEmpty == Item(PyStr(<<"a">>), PyList(<<>>))

ExperimentsChoices ==
  << <<ItemB, ItemA>>, <<ItemNG>>,
     <<ItemShort>>, <<ItemLong>>, <<ItemEmpty, ItemB>> >>

(***************************************************************************)
(* State.                                                                  *)
(***************************************************************************)
VARIABLES
  \* runexperiments.py
  experiments,  \* the items of the experiments dict, in iteration order
  dir,          \* the directory "out"
  pc,           \* where main is
  inv,          \* invocations of main started so far
  dry,          \* args.dry of the current invocation
  s,            \* sample index of the classification loop
  j,            \* position of the classification loop in gen_experiments()
  total,        \* main's total
  to_run,       \* main's to_run
  i,            \* position of the execution loop in to_run (from 1)
  fbuf,         \* what print has written to f and flush has not yet pushed out
  childout,     \* what the external process has written so far
  rc,           \* returncode
  spawned,      \* history: the destinations a process was spawned for
  rcs,          \* history: the exit codes of the processes that exited
  prevDone,     \* history: the invocation before was normal mode and completed
  intAt,        \* history: where the invocation was interrupted
  \* gen_combinations as a generator
  g_counts, g_cur, g_out, g_pc,
  \* the canonicalizer
  c_x, c_y, c_cx, c_cy, c_pc,
  \* fixhashes.py
  r_dir, r_dir0, r_names, r_idx, r_report, r_pc,
  \* gen_experiments as a generator
  e_raw,        \* the items of the experiments mapping, in iteration order
  e_out,        \* the specifications yielded so far
  e_pc

schedVars ==
  <<experiments, dir, pc, inv, dry, s, j, total, to_run, i, fbuf, childout, rc,
    spawned, rcs, prevDone, intAt>>
combVars == <<g_counts, g_cur, g_out, g_pc>>
canonVars == <<c_x, c_y, c_cx, c_cy, c_pc>>
repairVars == <<r_dir, r_dir0, r_names, r_idx, r_report, r_pc>>
expVars == <<e_raw, e_out, e_pc>>
vars == <<schedVars, combVars, canonVars, repairVars, expVars>>

EmptyDir == [n \in {} |-> <<>>]

SchedIdle ==
  /\ experiments = <<>> /\ dir = EmptyDir /\ pc = "off" /\ inv = 0
  /\ dry = FALSE /\ s = 0 /\ j = 1 /\ total = 0 /\ to_run = <<>> /\ i = 1
  /\ fbuf = <<>> /\ childout = <<>> /\ rc = 0 /\ spawned = <<>>
  /\ rcs = <<>> /\ prevDone = FALSE /\ intAt = "none"
CombIdle == g_counts = <<>> /\ g_cur = <<>> /\ g_out = <<>> /\ g_pc = "off"
CanonIdle ==
  c_x = <<>> /\ c_y = <<>> /\ c_cx = <<>> /\ c_cy = <<>> /\ c_pc = "off"
ExpIdle == e_raw = <<>> /\ e_out = <<>> /\ e_pc = "off"
RepairIdle ==
  /\ r_dir = EmptyDir /\ r_dir0 = EmptyDir /\ r_names = <<>> /\ r_idx = 1
  /\ r_report = <<>> /\ r_pc = "off"

(***************************************************************************)
(* runexperiments.py: main and run.                                        *)
(***************************************************************************)
\* the positions at which an invocation is over
Ended == {"idle", "done", "failed", "aborted", "crashed", "interrupted"}
\* the positions inside run, the file f open
InRun == {"opened", "printed", "flushed", "child", "exited", "sentinel"}

\* what the external process may write in all: nothing, an unterminated
\* line, a terminated line; it writes one byte at a time
Outputs == { <<>>, <<"x">>, <<"x", "\n">> }

Job == to_run[i]

Init ==
  /\ \E e \in 1..Len(ExperimentsChoices) : experiments = ExperimentsChoices[e]
  /\ dir = EmptyDir /\ pc = "idle" /\ inv = 0
  /\ dry = FALSE /\ s = 0 /\ j = 1 /\ total = 0 /\ to_run = <<>> /\ i = 1
  /\ fbuf = <<>> /\ childout = <<>> /\ rc = 0 /\ spawned = <<>>
  /\ rcs = <<>> /\ prevDone = FALSE /\ intAt = "none"
  /\ CombIdle /\ CanonIdle /\ RepairIdle /\ ExpIdle

Others == UNCHANGED <<combVars, canonVars, repairVars, expVars>>

\* a new process runs main; args.dry is the operator's choice
StartMain ==
  /\ pc \in Ended
  /\ inv < MaxInvocations
  /\ \E d \in BOOLEAN : dry' = d
  /\ inv' = inv + 1
  /\ pc' = "classify"
  /\ s' = 0 /\ j' = 1 /\ total' = 0 /\ to_run' = <<>> /\ i' = 1
  /\ fbuf' = <<>> /\ childout' = <<>> /\ rc' = 0
  /\ spawned' = <<>> /\ rcs' = <<>> /\ intAt' = "none"
  /\ prevDone' = (pc = "done" /\ ~dry)
  /\ UNCHANGED <<experiments, dir>>
  /\ Others

\* a plausible slip: the continue on SKIP is missing
ScheduleAlways(tr, state, flags, out) ==
  Append(tr, [state |-> state, flags |-> flags, out |-> out])

\* SKIP: continue; else to_run.append((state, flags, out))
Schedule(tr, state, flags, out) ==
  IF state = SKIP THEN tr
  ELSE Append(tr, [state |-> state, flags |-> flags, out |-> out])

\* one pass of the inner loop body: hash, destination, runstate, to_run
Classify ==
  /\ pc = "classify"
  /\ s < NumSamples
  /\ LET g == gen_experiments(experiments)
     IN  /\ j <= Len(g.specs)
         /\ LET flags == g.specs[j]
                out == OutName(flags, s)
                state == runstate(dir, out)
            IN  /\ total' = total + 1
                /\ IF state = EXIT
                     THEN pc' = "aborted" /\ UNCHANGED <<j, to_run>>
                     ELSE /\ pc' = "classify"
                          /\ j' = j + 1
                          /\ to_run' = Schedule(to_run, state, flags, out)
  /\ UNCHANGED <<experiments, dir, inv, dry, s, i, fbuf, childout, rc,
                 spawned, rcs, prevDone, intAt>>
  /\ Others

\* gen_experiments() is exhausted: the next sample starts a new generator
NextSample ==
  /\ pc = "classify"
  /\ s < NumSamples
  /\ LET g == gen_experiments(experiments)
     IN  j > Len(g.specs) /\ g.err = "none"
  /\ s' = s + 1 /\ j' = 1
  /\ UNCHANGED <<experiments, dir, pc, inv, dry, total, to_run, i, fbuf, childout,
                 rc, spawned, rcs, prevDone, intAt>>
  /\ Others

\* gen_experiments() raises (gen_combinations or iterflags): main dies
GenRaise ==
  /\ pc = "classify"
  /\ s < NumSamples
  /\ LET g == gen_experiments(experiments)
     IN  j > Len(g.specs) /\ g.err # "none"
  /\ pc' = "crashed"
  /\ UNCHANGED <<experiments, dir, inv, dry, s, j, total, to_run, i, fbuf, childout,
                 rc, spawned, rcs, prevDone, intAt>>
  /\ Others

\* a plausible slip: the dry flag is not looked at
AfterClassifyIgnoreDry(d, tr) == IF tr = <<>> THEN "done" ELSE "execute"

\* after the banner: the dry-run return, else the execution loop
AfterClassify(d, tr) ==
  IF d THEN "done" ELSE IF tr = <<>> THEN "done" ELSE "execute"

EndClassify ==
  /\ pc = "classify"
  /\ s = NumSamples
  /\ pc' = AfterClassify(dry, to_run)
  /\ i' = 1
  /\ UNCHANGED <<experiments, dir, inv, dry, s, j, total, to_run, fbuf, childout,
                 rc, spawned, rcs, prevDone, intAt>>
  /\ Others

\* a plausible slip: mode "a", an existing destination keeps its content
OpenForAppend(d, name) == IF Exists(d, name) THEN d ELSE WriteFile(d, name, <<>>)

\* open(outname, "w"): the destination exists and is empty afterwards
OpenForWrite(d, name) == WriteFile(d, name, <<>>)

\* run: open(outname, "w") creates or truncates the destination
Open ==
  /\ pc = "execute"
  /\ dir' = OpenForWrite(dir, Job.out)
  /\ fbuf' = <<>>
  /\ pc' = "opened"
  /\ UNCHANGED <<experiments, inv, dry, s, j, total, to_run, i, childout, rc,
                 spawned, rcs, prevDone, intAt>>
  /\ Others

\* run: print of the header goes to f's buffer
PrintHeader ==
  /\ pc = "opened"
  /\ fbuf' = fbuf \o Header(Job.flags)
  /\ pc' = "printed"
  /\ UNCHANGED <<experiments, dir, inv, dry, s, j, total, to_run, i, childout, rc,
                 spawned, rcs, prevDone, intAt>>
  /\ Others

\* run: f.flush()
FlushHeader ==
  /\ pc = "printed"
  /\ dir' = WriteFile(dir, Job.out, dir[Job.out] \o fbuf)
  /\ fbuf' = <<>>
  /\ pc' = "flushed"
  /\ UNCHANGED <<experiments, inv, dry, s, j, total, to_run, i, childout, rc,
                 spawned, rcs, prevDone, intAt>>
  /\ Others

\* run: subprocess.call starts the external process on f's descriptor
Spawn ==
  /\ pc = "flushed"
  /\ spawned' = Append(spawned, Job.out)
  /\ childout' = <<>>
  /\ pc' = "child"
  /\ UNCHANGED <<experiments, dir, inv, dry, s, j, total, to_run, i, fbuf, rc,
                 rcs, prevDone, intAt>>
  /\ Others

\* the external process writes to its standard output
ChildWrite ==
  /\ pc = "child"
  /\ \E o \in Outputs :
       /\ Len(childout) < Len(o)
       /\ SubSeq(o, 1, Len(childout)) = childout
       /\ childout' = Append(childout, o[Len(childout) + 1])
       /\ dir' = WriteFile(dir, Job.out, Append(dir[Job.out], o[Len(childout) + 1]))
  /\ UNCHANGED <<experiments, pc, inv, dry, s, j, total, to_run, i, fbuf, rc,
                 spawned, rcs, prevDone, intAt>>
  /\ Others

\* the external process exits; subprocess.call returns its code
ChildExit ==
  /\ pc = "child"
  /\ childout \in Outputs
  /\ \E code \in {0, 1} : rc' = code /\ rcs' = Append(rcs, code)
  /\ pc' = "exited"
  /\ UNCHANGED <<experiments, dir, inv, dry, s, j, total, to_run, i, fbuf, childout,
                 spawned, prevDone, intAt>>
  /\ Others

\* run: returncode == 0, print of the sentinel goes to f's buffer
PrintSentinel ==
  /\ pc = "exited"
  /\ rc = 0
  /\ fbuf' = fbuf \o SentinelLine
  /\ pc' = "sentinel"
  /\ UNCHANGED <<experiments, dir, inv, dry, s, j, total, to_run, i, childout, rc,
                 spawned, rcs, prevDone, intAt>>
  /\ Others

\* run: f.flush(); return True (leaving the with block closes f)
ReturnTrue ==
  /\ pc = "sentinel"
  /\ dir' = WriteFile(dir, Job.out, dir[Job.out] \o fbuf)
  /\ fbuf' = <<>>
  /\ pc' = "returned"
  /\ UNCHANGED <<experiments, inv, dry, s, j, total, to_run, i, childout, rc,
                 spawned, rcs, prevDone, intAt>>
  /\ Others

\* run: returncode != 0, return False (leaving the with block closes f)
ReturnFalse ==
  /\ pc = "exited"
  /\ rc # 0
  /\ pc' = "returned"
  /\ UNCHANGED <<experiments, dir, inv, dry, s, j, total, to_run, i, fbuf, childout,
                 rc, spawned, rcs, prevDone, intAt>>
  /\ Others

\* a plausible slip: the result of run is not looked at
AfterRunIgnoreFailure(ok, k, n) == IF k < n THEN "execute" ELSE "done"

\* main after run returned: sys.exit(1) on failure, else the next job
\* (the duration estimate in between only feeds a print)
AfterRun(ok, k, n) ==
  IF ~ok THEN "failed" ELSE IF k < n THEN "execute" ELSE "done"

Continue ==
  /\ pc = "returned"
  /\ pc' = AfterRun(rc = 0, i, Len(to_run))
  /\ i' = IF pc' = "execute" THEN i + 1 ELSE i
  /\ UNCHANGED <<experiments, dir, inv, dry, s, j, total, to_run, fbuf, childout,
                 rc, spawned, rcs, prevDone, intAt>>
  /\ Others

\* the invocation is interrupted from outside.  KeyboardInterrupt unwinds
\* through the with block, which closes f and so pushes out its buffer;
\* a kill loses the buffer.
Interrupt ==
  /\ pc \in InRun \cup {"classify", "execute", "returned"}
  /\ \E kind \in {"kill", "exception"} :
       dir' = IF pc \in InRun /\ kind = "exception"
                THEN WriteFile(dir, Job.out, dir[Job.out] \o fbuf)
                ELSE dir
  /\ fbuf' = <<>>
  /\ intAt' = pc
  /\ pc' = "interrupted"
  /\ UNCHANGED <<experiments, inv, dry, s, j, total, to_run, i, childout, rc,
                 spawned, rcs, prevDone>>
  /\ Others

Next ==
  \/ StartMain \/ Classify \/ NextSample \/ GenRaise \/ EndClassify
  \/ Open \/ PrintHeader \/ FlushHeader \/ Spawn \/ ChildWrite \/ ChildExit
  \/ PrintSentinel \/ ReturnTrue \/ ReturnFalse \/ Continue \/ Interrupt

Spec == Init /\ [][Next]_vars

(***************************************************************************)
(* Properties of the scheduler.                                            *)
(***************************************************************************)
EndsWith(c, suffix) ==
  Len(c) >= Len(suffix) /\ SubSeq(c, Len(c) - Len(suffix) + 1, Len(c)) = suffix

\* the content of name in d, or "absent"
FileAt(d, name) == IF name \in DOMAIN d THEN d[name] ELSE "absent"

\* C1: once run has returned True (the external process exited with 0),
\* runstate classifies the destination SKIP, whatever the process wrote.
C1_SuccessIsSkip ==
  (pc = "returned" /\ rc = 0) => runstate(dir, Job.out) = SKIP

\* C2: an invocation interrupted after the destination was opened and before
\* the sentinel was printed leaves a file that runstate classifies RERUN
\* (neither SKIP nor the exit).
C2_InterruptedIsRerun ==
  (pc = "interrupted" /\ intAt \in {"opened", "printed", "flushed", "child", "exited"})
    => runstate(dir, Job.out) = RERUN

\* C3: a normal-mode invocation that follows a normal-mode invocation which
\* completed every job classifies nothing as to run and spawns no process.
C3_SecondRunIdle ==
  (prevDone /\ ~dry /\ pc \notin {"idle"}) => (to_run = <<>> /\ spawned = <<>>)

\* the permutations of 1..n
Perms(n) == {f \in [1..n -> 1..n] : \A a, b \in 1..n : f[a] = f[b] => a = b}

\* the destinations main derives from the mapping's items in the order raw
DestSet(raw) ==
  LET g == gen_experiments(raw)
  IN  {OutName(g.specs[k], smp) : k \in 1..Len(g.specs), smp \in 0..(NumSamples - 1)}

\* C6: whatever order the groups of the experiments mapping are iterated
\* in, the scheduler derives the same set of destination names (hash and
\* sample).
C6_OrderIndependent ==
  \A f \in Perms(Len(experiments)) :
    DestSet([k \in 1..Len(experiments) |-> experiments[f[k]]]) = DestSet(experiments)

\* a completed normal-mode invocation over a mapping of more than one group
\* whose iteration order is not the sorted one
C6_Witness ==
  /\ Len(experiments) > 1
  /\ pc = "done" /\ ~dry
  /\ DestSet(experiments) # {}
  /\ DestSet(experiments) \subseteq DOMAIN dir

\* C9, the state part: after a process exited non-zero no further process
\* is spawned; when main has exited on the failure the failed destination
\* holds the header and the process's output and nothing more, and the
\* destinations of the jobs before it still end with the sentinel line.
C9_FailState ==
  /\ \A k \in 1..Len(rcs) : rcs[k] # 0 => Len(spawned) = k
  /\ pc = "failed" =>
       /\ rc # 0
       /\ dir[Job.out] = Header(Job.flags) \o childout
       /\ \A k \in 1..(i - 1) : EndsWith(dir[to_run[k].out], SentinelLine)

\* C9, the step part: within an invocation the execution loop only moves
\* forward and a step changes no file but the current job's destination,
\* so the destinations of the jobs after a failed one are never touched;
\* and main does nothing more once it has exited on the failure.
C9_FailStep ==
  /\ inv' = inv =>
       /\ i' >= i
       /\ pc # "failed"
       /\ \A n \in DOMAIN dir \cup DOMAIN dir' :
            (pc \in InRun \cup {"execute"} /\ n = Job.out)
              \/ FileAt(dir', n) = FileAt(dir, n)

\* C9: fail-fast.  When the external process of a job exits non-zero, main
\* spawns no further process and exits; the failed destination holds no
\* sentinel written by run, the jobs after it are not touched, and the files
\* of the jobs completed before it keep their sentinel.
C9_FailFast == [](C9_FailState) /\ [][C9_FailStep]_vars

\* main has exited on the failure of the second job
C9_Witness ==
  pc = "failed" /\ i = 2 /\ rcs = <<0, 1>> /\ spawned = <<to_run[1].out, to_run[2].out>>

\* the destinations of the whole parameter space
AllDests == DestSet(experiments)

\* C10, the step part: no step of a dry-run invocation changes a file or
\* spawns a process.
C10_DryStep ==
  (dry /\ inv' = inv) => (dir' = dir /\ spawned' = spawned /\ spawned = <<>>)

\* C10, the state part: a dry run that returns has classified every
\* destination and only reports what is to run.
C10_DryState ==
  (dry /\ pc = "done") =>
     /\ total = Cardinality(AllDests)
     /\ Len(to_run) = Cardinality({n \in AllDests : runstate(dir, n) # SKIP})

\* C10: a dry-run invocation classifies every destination, spawns no
\* process and creates, truncates or modifies no file.
C10_DryRun == [](C10_DryState) /\ [][C10_DryStep]_vars

\* a dry run has returned with work it reported and did not do
C10_Witness == dry /\ pc = "done" /\ to_run # <<>> /\ dir # EmptyDir

\* every destination of the parameter space in the order main classifies
\* them: sample-major, then the order gen_experiments yields
AllJobs ==
  LET specs == gen_experiments(experiments).specs
      L == Len(specs)
  IN  [k \in 1..(NumSamples * L) |-> OutName(specs[((k - 1) % L) + 1], (k - 1) \div L)]

\* the destinations among the first n of q that runstate does not skip
RECURSIVE NotSkipped(_, _)
NotSkipped(q, n) ==
  IF n = 0 THEN <<>>
  ELSE IF runstate(dir, q[n]) = SKIP THEN NotSkipped(q, n - 1)
  ELSE Append(NotSkipped(q, n - 1), q[n])

\* the destinations of to_run, in its order
ToRunOuts == [k \in 1..Len(to_run) |-> to_run[k].out]

\* C14, the state part: while main classifies, to_run holds exactly the
\* destinations classified so far that are RUN or RERUN, in classification
\* order and with that state; the processes spawned are those of to_run
\* in its order, and all of them once main has returned from a normal run.
C14_State ==
  /\ pc = "classify" =>
       /\ LET jobs == AllJobs
          IN  ToRunOuts = NotSkipped(jobs, s * (Len(jobs) \div NumSamples) + (j - 1))
       /\ \A k \in 1..Len(to_run) :
            to_run[k].state = runstate(dir, to_run[k].out)
              /\ to_run[k].state \in {RUN, RERUN}
  /\ Len(spawned) <= Len(to_run)
  /\ spawned = SubSeq(ToRunOuts, 1, Len(spawned))
  /\ (pc = "done" /\ ~dry) => spawned = ToRunOuts

\* C14, the step part: within an invocation the classification changes no
\* file, to_run is fixed once the classification is over, and from then on
\* no step changes a destination that is not in to_run, that is, one that
\* was classified SKIP.
C14_Step ==
  inv' = inv =>
    /\ pc = "classify" => dir' = dir
    /\ pc # "classify" =>
         /\ to_run' = to_run
         /\ dir' # dir =>
              LET jobs == AllJobs
              IN  \A k \in 1..Len(jobs) :
                    (\E m \in 1..Len(to_run) : to_run[m].out = jobs[k])
                      \/ FileAt(dir', jobs[k]) = FileAt(dir, jobs[k])

RunEntered ==
  \/ pc \in InRun \cup {"returned", "failed"}
  \/ pc = "done" /\ ~dry /\ to_run # <<>>
  \/ pc = "interrupted" /\ intAt \in InRun \cup {"returned"}

\* where run is, or was when the invocation was interrupted
RunAt == IF pc = "interrupted" THEN intAt ELSE pc

\* C15: from the moment run has opened the destination, whatever it held
\* before, its content is a prefix of "# " + the flags joined by single
\* spaces + newline, then what the process wrote, then the sentinel line;
\* the whole header is there once the process runs, the sentinel line is
\* there only after the process exited with 0, and nothing else is.
C15_FilePrefix ==
  RunEntered =>
    LET c == FileAt(dir, Job.out)
        h == <<"#", " ">> \o Join(<<" ">>, Job.flags) \o <<"\n">>
        sentinel == <<"#", " ", "D", "O", "N", "E", "\n">>
    IN  /\ c # "absent"
        /\ RunAt \in {"opened", "printed", "flushed"} => StartsWith(h, c)
        /\ RunAt \notin {"opened", "printed", "flushed"} =>
             /\ StartsWith(h \o childout \o sentinel, c)
             /\ StartsWith(c, h \o childout)
        /\ Len(c) > Len(h \o childout) =>
             /\ RunAt \in {"sentinel", "returned", "done"}
             /\ rc = 0 /\ rcs # <<>> /\ rcs[Len(rcs)] = 0
             /\ c = h \o childout \o sentinel
        /\ (RunAt \in {"returned", "done"} /\ rc = 0) => c = h \o childout \o sentinel

\* run has returned True for a destination that held an interrupted record
C15_Witness ==
  /\ pc = "returned" /\ rc = 0 /\ inv = 2
  /\ Job.state = RERUN
  /\ childout = <<"x", "\n">>
  /\ dir[Job.out] = Header(Job.flags) \o childout \o SentinelLine

\* the file name exists in d and is shorter than the 8 bytes of the tail
\* window, len("# DONE") + 2
ShortFile(d, name) == name \in DOMAIN d /\ Len(d[name]) < 8

\* C17, the state part: main goes past a candidate only when it is not a
\* short file, so no short file is ever classified; when main has exited
\* on the seek error the candidate at hand is a short file that is not in
\* to_run, and no process was spawned in the invocation.
C17_State ==
  /\ pc = "classify" =>
       \A k \in 1..(s * Len(gen_experiments(experiments).specs) + (j - 1)) :
         ~ShortFile(dir, AllJobs[k])
  /\ pc = "aborted" =>
       /\ ShortFile(dir, AllJobs[total])
       /\ \A k \in 1..Len(to_run) : to_run[k].out # AllJobs[total]
       /\ Len(to_run) < total
       /\ spawned = <<>> /\ rcs = <<>>

\* C17, the step part: a step of main at a candidate (the j-th
\* specification of sample s) that is a short file ends the invocation
\* and classifies nothing; neither the classification nor the exit changes
\* a file or spawns a process, and main does nothing more once it has
\* exited.
C17_Step ==
  inv' = inv =>
    /\ pc # "aborted"
    /\ pc = "classify" =>
         /\ dir' = dir /\ spawned' = <<>>
         /\ \A k \in 1..Len(AllJobs) :
              (k = s * Len(gen_experiments(experiments).specs) + j
                 /\ s < NumSamples /\ j <= Len(gen_experiments(experiments).specs)
                 /\ ShortFile(dir, AllJobs[k]))
                => (pc' \in {"aborted", "interrupted"} /\ to_run' = to_run)

\* C17: a candidate destination that exists and is shorter than 8 bytes
\* makes the completion check fail and main exit: the file gets no
\* classification, no process is spawned in that invocation and no file is
\* modified.
C17_ShortFileAborts == [](C17_State) /\ [][C17_Step]_vars

\* the second invocation has skipped the complete first destination and
\* exited at the second, left empty by the interrupted first invocation
C17_Witness ==
  /\ pc = "aborted" /\ inv = 2 /\ total = 2
  /\ to_run = <<>> /\ spawned = <<>>
  /\ runstate(dir, AllJobs[1]) = SKIP
  /\ dir[AllJobs[2]] = <<>>

\* C11: when a group has no value or a selected value tuple has another
\* arity than its name tuple, main dies of one and the same kind of error
\* (the ValueError the code constructs), before any process was spawned.
C11_ConfigError ==
  pc = "crashed" =>
    (gen_experiments(experiments).err = "ValueError" /\ spawned = <<>>)

(***************************************************************************)
(* gen_combinations driven as a generator: one step per resumption.        *)
(***************************************************************************)
\* the tuples of counts handed in, non-positive counts included
CountsInputs == UNION {[1..n -> 0..MaxCard] : n \in 0..MaxGroups}

InitComb ==
  /\ g_counts \in CountsInputs
  /\ g_cur = <<>> /\ g_out = <<>> /\ g_pc = "start"
  /\ SchedIdle /\ CanonIdle /\ RepairIdle /\ ExpIdle

\* first next(): the counts are valid, the all-zero tuple is yielded
GenFirst ==
  /\ g_pc = "start"
  /\ CountsValid(g_counts)
  /\ g_cur' = Zeros(g_counts)
  /\ g_out' = <<Zeros(g_counts)>>
  /\ g_pc' = "yielded"
  /\ UNCHANGED <<g_counts, schedVars, expVars, canonVars, repairVars>>

\* first next(): a count is not positive
GenValueError ==
  /\ g_pc = "start"
  /\ ~CountsValid(g_counts)
  /\ g_pc' = "raised"
  /\ UNCHANGED <<g_counts, g_cur, g_out, schedVars, expVars, canonVars, repairVars>>

\* a later next(): the for loop carries, then the next tuple is yielded
GenNext ==
  /\ g_pc = "yielded"
  /\ LET nxt == Carry(g_cur, g_counts, Len(g_counts))
     IN  /\ nxt.more
         /\ g_cur' = nxt.cur
         /\ g_out' = Append(g_out, nxt.cur)
  /\ UNCHANGED <<g_counts, g_pc, schedVars, expVars, canonVars, repairVars>>

\* a later next(): every digit wrapped, the for loop's else leaves the while
GenStop ==
  /\ g_pc = "yielded"
  /\ LET nxt == Carry(g_cur, g_counts, Len(g_counts))
     IN  /\ ~nxt.more
         /\ g_cur' = nxt.cur
  /\ g_pc' = "stopped"
  /\ UNCHANGED <<g_counts, g_out, schedVars, expVars, canonVars, repairVars>>

NextComb == GenFirst \/ GenValueError \/ GenNext \/ GenStop

SpecComb == InitComb /\ [][NextComb]_vars

\* the consumer is a for loop: it asks for the next tuple until StopIteration
FairSpecComb == SpecComb /\ WF_vars(NextComb)

RECURSIVE Product(_)
Product(counts) == IF counts = <<>> THEN 1 ELSE Head(counts) * Product(Tail(counts))

\* the cartesian space of index vectors
IndexSpace(counts) ==
  {v \in [1..Len(counts) -> 0..MaxCard] : \A k \in 1..Len(counts) : v[k] < counts[k]}

\* C4, the state part: never more tuples than the product; once stopped,
\* exactly the product, each in range, no tuple twice, the whole space.
C4_Yielded ==
  /\ Len(g_out) <= Product(g_counts)
  /\ \A a, b \in 1..Len(g_out) : g_out[a] = g_out[b] => a = b
  /\ \A a \in 1..Len(g_out) : g_out[a] \in IndexSpace(g_counts)
  /\ g_pc = "stopped" =>
       /\ Len(g_out) = Product(g_counts)
       /\ {g_out[a] : a \in 1..Len(g_out)} = IndexSpace(g_counts)

\* C4: for counts all > 0 (the empty tuple included) gen_combinations
\* terminates, having yielded each index vector of the cartesian space
\* exactly once.
C4_Enumerates ==
  /\ [](C4_Yielded)
  /\ (CountsValid(g_counts) => <>(g_pc = "stopped"))

\* the generator has stopped after carrying across several digits
C4_Witness ==
  /\ g_pc = "stopped"
  /\ Len(g_counts) >= 2
  /\ \A k \in 1..Len(g_counts) : g_counts[k] >= 2
  /\ Len(g_out) >= 4

\* tuple order of Python on index vectors of one length
LexLess(a, b) ==
  \E p \in 1..Len(a) : a[p] < b[p] /\ \A q \in 1..(p - 1) : a[q] = b[q]

\* b is a with its last position incremented, the carry moving toward the
\* first: some position p goes up by one, the positions after it were at
\* their maximum and are 0, the positions before it are as they were
IsSuccessor(a, b, counts) ==
  \E p \in 1..Len(counts) :
    /\ b[p] = a[p] + 1
    /\ \A q \in 1..(p - 1) : b[q] = a[q]
    /\ \A q \in (p + 1)..Len(counts) : a[q] = counts[q] - 1 /\ b[q] = 0

\* the k-th index vector of counts in lexicographic order: the digits of
\* k - 1 in the mixed radix counts, the last position the least significant
NthVector(counts, k) ==
  [p \in 1..Len(counts) |->
     ((k - 1) \div Product(SubSeq(counts, p + 1, Len(counts)))) % counts[p]]

\* C16: the index vectors come in strictly increasing lexicographic order,
\* the last group varying fastest: the first is all zeros, each next one is
\* the successor (increment of the last position with carry toward the
\* first) of the one before, the last one is counts[i] - 1 in every
\* position, and the k-th vector depends on counts and k alone, so that
\* an enumeration from scratch gives the same sequence.
C16_LexOrder ==
  /\ g_out # <<>> => \A p \in 1..Len(g_counts) : g_out[1][p] = 0
  /\ \A a \in 1..(Len(g_out) - 1) :
       /\ LexLess(g_out[a], g_out[a + 1])
       /\ IsSuccessor(g_out[a], g_out[a + 1], g_counts)
  /\ g_pc = "stopped" =>
       \A p \in 1..Len(g_counts) : g_out[Len(g_out)][p] = g_counts[p] - 1
  /\ \A k \in 1..Len(g_out) : g_out[k] = NthVector(g_counts, k)

\* the enumeration of counts (2, 3) is over
C16_Witness ==
  /\ g_pc = "stopped"
  /\ g_counts = <<2, 3>>
  /\ g_out = << <<0, 0>>, <<0, 1>>, <<0, 2>>, <<1, 0>>, <<1, 1>>, <<1, 2>> >>

(***************************************************************************)
(* The canonical string and digest, as each program computes them.         *)
(***************************************************************************)
\* fixhashes: line.lstrip('# '), split, sorted, joined by one space
canonical_flags(line) == FlagStr(Sorted(Split(LStrip(line, {"#", " "}))))

\* whitespace-free flag tokens, one a proper prefix of another
Tokens == { <<"-", "a">>, <<"-", "a", "b">>, <<"-", "b">> }

RECURSIVE SeqsUpTo(_, _)
SeqsUpTo(S, n) ==
  IF n = 0 THEN {<<>>}
  ELSE LET shorter == SeqsUpTo(S, n - 1)
       IN  shorter \cup {Append(q, t) : q \in shorter, t \in S}

InitCanon ==
  /\ c_x \in SeqsUpTo(Tokens, MaxTokens)
  /\ c_y \in SeqsUpTo(Tokens, MaxTokens)
  /\ c_cx = <<>> /\ c_cy = <<>> /\ c_pc = "start"
  /\ SchedIdle /\ CombIdle /\ RepairIdle /\ ExpIdle

\* runexperiments: the flags come sorted out of gen_experiments and main
\* joins them
CanonFlags ==
  /\ c_pc = "start"
  /\ c_cx' = FlagStr(Sorted(c_x))
  /\ c_pc' = "flags"
  /\ UNCHANGED <<c_x, c_y, c_cy, schedVars, expVars, combVars, repairVars>>

\* fixhashes: the tokens are read back from a header line that holds them
\* in the order given
CanonLine ==
  /\ c_pc = "flags"
  /\ c_cy' = canonical_flags(<<"#", " ">> \o FlagStr(c_y) \o <<"\n">>)
  /\ c_pc' = "done"
  /\ UNCHANGED <<c_x, c_y, c_cx, schedVars, expVars, combVars, repairVars>>

NextCanon == CanonFlags \/ CanonLine

SpecCanon == InitCanon /\ [][NextCanon]_vars

Count(q, t) == Cardinality({k \in 1..Len(q) : q[k] = t})
SameMultiset(p, q) == \A t \in Tokens : Count(p, t) = Count(q, t)

\* C5: two token sequences have the same canonical string exactly when
\* they are the same multiset of tokens, and then the same digest.
C5_CanonicalIffMultiset ==
  c_pc = "done" =>
    /\ (c_cx = c_cy) <=> SameMultiset(c_x, c_y)
    /\ SameMultiset(c_x, c_y) => Md5(c_cx) = Md5(c_cy)

\* two different orders of the same two distinct tokens were canonicalized
C5_Witness ==
  /\ c_pc = "done"
  /\ Len(c_x) = 2 /\ c_x # c_y /\ SameMultiset(c_x, c_y)
  /\ c_cx = c_cy

(***************************************************************************)
(* fixhashes.py: one pass over the directory "out".                        *)
(***************************************************************************)
FlagsAB == << <<"-", "a">>, <<"-", "b">> >>
FlagsBA == << <<"-", "b">>, <<"-", "a">> >>

\* names: the digest of the sorted flags, the digest of the flags in the
\* order the header holds them (a stale scheme), two samples, and a name
\* that is not prefix-digest-sample
RepairNames ==
  { <<PREFIX, Md5(FlagStr(FlagsAB)), Fmt02(0)>>,
    <<PREFIX, Md5(FlagStr(FlagsBA)), Fmt02(0)>>,
    <<PREFIX, Md5(FlagStr(FlagsBA)), Fmt02(1)>>,
    << <<"n">> >> }

\* contents: a complete record with its flags out of order, an interrupted
\* record, a file with no header marker, an empty file
RepairContents ==
  { Header(FlagsBA) \o <<"x", "\n">> \o SentinelLine,
    Header(FlagsAB),
    <<"x", "\n">>,
    <<>> }

RepairDirs ==
  UNION { [D -> RepairContents] :
            D \in {E \in SUBSET RepairNames : Cardinality(E) <= MaxFiles} }

\* every order os.listdir may return the names of d in
Listings(d) ==
  LET n == Cardinality(DOMAIN d)
  IN  {l \in [1..n -> DOMAIN d] : \A a, b \in 1..n : l[a] = l[b] => a = b}

InitRepair ==
  /\ r_dir \in RepairDirs
  /\ r_dir0 = r_dir
  /\ r_names = <<>> /\ r_idx = 1 /\ r_report = <<>> /\ r_pc = "start"
  /\ SchedIdle /\ CombIdle /\ CanonIdle /\ ExpIdle

RName == r_names[r_idx]
RLine == ReadLine(r_dir[RName])
\* the loop is at a name that splits into prefix, digest and iteration
AtFile == r_pc = "loop" /\ r_idx <= Len(r_names)
Splits == Len(RName) = 3
HasMarker == StartsWith(RLine, <<"#">>)
calc_dig == Md5(canonical_flags(RLine))

\* os.listdir(dirname)
ListDir ==
  /\ r_pc = "start"
  /\ r_names' \in Listings(r_dir)
  /\ r_pc' = "loop"
  /\ UNCHANGED <<r_dir, r_dir0, r_idx, r_report, schedVars, expVars, combVars, canonVars>>

\* name.split('-') does not give three parts: the unpacking raises ValueError
RepairValueError ==
  /\ AtFile /\ ~Splits
  /\ r_pc' = "crashed"
  /\ UNCHANGED <<r_dir, r_dir0, r_names, r_idx, r_report, schedVars, expVars, combVars,
                 canonVars>>

\* the first line does not start with '#': "E", continue
RepairError ==
  /\ AtFile /\ Splits /\ ~HasMarker
  /\ r_report' = Append(r_report, [kind |-> "E", name |-> RName])
  /\ r_idx' = r_idx + 1
  /\ UNCHANGED <<r_dir, r_dir0, r_names, r_pc, schedVars, expVars, combVars, canonVars>>

\* the digest in the name is the computed one: "S"
RepairSame ==
  /\ AtFile /\ Splits /\ HasMarker
  /\ calc_dig = RName[2]
  /\ r_report' = Append(r_report, [kind |-> "S", name |-> RName])
  /\ r_idx' = r_idx + 1
  /\ UNCHANGED <<r_dir, r_dir0, r_names, r_pc, schedVars, expVars, combVars, canonVars>>

\* "-".join((prefix, calc_dig, iteration))
NewName(name, dig) == <<name[1], dig, name[3]>>

\* the digests differ: "R", os.rename
RepairRename ==
  /\ AtFile /\ Splits /\ HasMarker
  /\ calc_dig # RName[2]
  /\ r_report' = Append(r_report, [kind |-> "R", name |-> RName])
  /\ r_dir' = Rename(r_dir, RName, NewName(RName, calc_dig))
  /\ r_idx' = r_idx + 1
  /\ UNCHANGED <<r_dir0, r_names, r_pc, schedVars, expVars, combVars, canonVars>>

\* the listing is exhausted
RepairEnd ==
  /\ r_pc = "loop" /\ r_idx > Len(r_names)
  /\ r_pc' = "done"
  /\ UNCHANGED <<r_dir, r_dir0, r_names, r_idx, r_report, schedVars, expVars, combVars,
                 canonVars>>

NextRepair ==
  \/ ListDir \/ RepairValueError \/ RepairError \/ RepairSame \/ RepairRename
  \/ RepairEnd

SpecRepair == InitRepair /\ [][NextRepair]_vars

\* C7: after a pass, every file that had the header marker is under its
\* prefix, the digest of its canonicalized header and its sample, and every
\* file that lacked the marker is under its original name and was reported
\* as an error.
C7_PassRepairs ==
  r_pc = "done" =>
    \A n \in DOMAIN r_dir0 :
      LET c == r_dir0[n]
          line == ReadLine(c)
          target == <<n[1], Md5(canonical_flags(line)), n[3]>>
      IN  IF StartsWith(line, <<"#">>)
            THEN FileAt(r_dir, target) = c
            ELSE /\ FileAt(r_dir, n) = c
                 /\ \E k \in 1..Len(r_report) : r_report[k] = [kind |-> "E", name |-> n]

\* C8: a pass keeps the number of files and every file's content.
C8_NothingLost ==
  /\ Cardinality(DOMAIN r_dir) = Cardinality(DOMAIN r_dir0)
  /\ \A c \in RepairContents :
       Cardinality({n \in DOMAIN r_dir : r_dir[n] = c})
         = Cardinality({n \in DOMAIN r_dir0 : r_dir0[n] = c})

\* C13: when the pass is over, every name of the listing, whatever the
\* name and the content of the file, has got exactly one of the outcomes
\* unchanged (S), renamed (R) or error (E), in the order of the listing: no
\* file stops the pass before the files after it are processed.
C13_EveryFileAnOutcome ==
  r_pc \in {"done", "crashed"} =>
    /\ Len(r_report) = Len(r_names)
    /\ \A k \in 1..Len(r_report) :
         r_report[k].name = r_names[k] /\ r_report[k].kind \in {"S", "R", "E"}

\* what one pass of the loop of fixhashes does with the file name holding
\* content c: the unpacking error, or the letter it prints
Outcome(name, c) ==
  LET line == ReadLine(c)
  IN  IF Len(name) # 3 THEN "ValueError"
      ELSE IF ~StartsWith(line, <<"#">>) THEN "E"
      ELSE IF Md5(canonical_flags(line)) = name[2] THEN "S"
      ELSE "R"

\* C18: every file in the directory was created by the scheduler, at the
\* destination main derived from the digest of the joined sorted flags, and
\* holds what run has written; once the header is in it, the repair pass
\* finds the digest of the canonicalized header equal to the one in the
\* name: its outcome for the file is "S", it renames nothing.
C18_WriterRepairAgree ==
  \A n \in DOMAIN dir : dir[n] # <<>> => Outcome(n, dir[n]) = "S"

\* run has returned False for the second specification of the correlated
\* group, whose two tokens come sorted in the header
C18_Witness ==
  /\ experiments = <<ItemNG>>
  /\ pc = "returned" /\ rc # 0 /\ i = 2
  /\ Job.flags = << <<"-", "g">>, <<"-", "n", "=", "1">> >>
  /\ Outcome(Job.out, dir[Job.out]) = "S"
  /\ Outcome(to_run[1].out, dir[to_run[1].out]) = "S"

(***************************************************************************)
(* gen_experiments driven as a generator: one step per yielded             *)
(* specification, over mappings of a single name and a pair of names.      *)
(***************************************************************************)
\* the settings a name can take: the default, both switches, a value
ValueKinds == {PyNone, PyBool(TRUE), PyBool(FALSE), PyStr(<<"1">>)}

\* value tuples for the pair of names, the last one of the wrong arity
PairTuples ==
  { PyTuple(<<PyNone, PyBool(TRUE)>>),
    PyTuple(<<PyBool(FALSE), PyStr(<<"1">>)>>),
    PyTuple(<<PyStr(<<"1">>), PyNone>>),
    PyTuple(<<PyStr(<<"1">>)>>) }

\* the single name a with a list of settings (possibly empty) or one
\* setting that is not in a list
AItems ==
  {Item(PyStr(<<"a">>), PyList(l)) : l \in SeqsUpTo(ValueKinds, MaxVals)}
    \cup {Item(PyStr(<<"a">>), v) : v \in ValueKinds}

\* the correlated names (n, g) with a list of value tuples
PairItems ==
  {Item(PyTuple(<< <<"n">>, <<"g">> >>), PyList(l)) :
     l \in SeqsUpTo(PairTuples, MaxTuples) \ {<<>>}}

ExperimentsInputs ==
  {<<a>> : a \in AItems} \cup {<<p>> : p \in PairItems}
    \cup {<<a, p>> : a \in AItems, p \in PairItems}

InitExp ==
  /\ e_raw \in ExperimentsInputs
  /\ e_out = <<>> /\ e_pc = "run"
  /\ SchedIdle /\ CombIdle /\ CanonIdle /\ RepairIdle

\* next(): the next index vector's flags, sorted, are yielded
ExpYield ==
  /\ e_pc = "run"
  /\ LET g == gen_experiments(e_raw)
     IN  /\ Len(e_out) < Len(g.specs)
         /\ e_out' = Append(e_out, g.specs[Len(e_out) + 1])
  /\ UNCHANGED <<e_raw, e_pc, schedVars, combVars, canonVars, repairVars>>

\* next(): combos is exhausted
ExpStop ==
  /\ e_pc = "run"
  /\ LET g == gen_experiments(e_raw)
     IN  Len(e_out) = Len(g.specs) /\ g.err = "none"
  /\ e_pc' = "stopped"
  /\ UNCHANGED <<e_raw, e_out, schedVars, combVars, canonVars, repairVars>>

\* next(): gen_combinations or iterflags raises
ExpRaise ==
  /\ e_pc = "run"
  /\ LET g == gen_experiments(e_raw)
     IN  Len(e_out) = Len(g.specs) /\ g.err # "none"
  /\ e_pc' = "raised"
  /\ UNCHANGED <<e_raw, e_out, schedVars, combVars, canonVars, repairVars>>

NextExp == ExpYield \/ ExpStop \/ ExpRaise

SpecExp == InitExp /\ [][NextExp]_vars

\* the items after the clean-up loop
ItemsOf(raw) == [n \in 1..Len(raw) |-> Normalize(raw[n])]

\* the index vector behind the n-th specification yielded
ComboOf(raw, n) ==
  gen_combinations([m \in 1..Len(raw) |-> Len(ItemsOf(raw)[m].values)])[n]

\* the (group, position) pairs of a mapping
NamePositions(raw) ==
  UNION {{<<m, p>> : p \in 1..Len(ItemsOf(raw)[m].k)} : m \in 1..Len(raw)}

\* the setting the n-th index vector selects at a (group, position)
SelectedValue(raw, n, pr) ==
  ItemsOf(raw)[pr[1]].values[ComboOf(raw, n)[pr[1]] + 1][pr[2]]

\* the token the rule asks for, for a name and a setting that is not None
RuleToken(name, value) ==
  IF value.t = "bool"
    THEN (IF value = PyBool(TRUE) THEN <<"-">> \o name
                                  ELSE <<"-", "n", "o">> \o name)
    ELSE <<"-">> \o name \o <<"=">> \o value.v

\* C12, for the n-th specification yielded: it is sorted; it has one token
\* per selected setting that is not None; each such (name, setting) has its
\* token "-name", "-noname" or "-name=value" in it as often as the rule
\* produces that token, and it holds no other token.
C12_SpecOk(n) ==
  LET spec == e_out[n]
      set == {pr \in NamePositions(e_raw) : SelectedValue(e_raw, n, pr).t # "none"}
      tok(pr) == RuleToken(ItemsOf(e_raw)[pr[1]].k[pr[2]], SelectedValue(e_raw, n, pr))
  IN  /\ \A p \in 1..(Len(spec) - 1) : ~StrLess(spec[p + 1], spec[p])
      /\ Len(spec) = Cardinality(set)
      /\ \A pr \in set :
           Count(spec, tok(pr)) = Cardinality({q \in set : tok(q) = tok(pr)})
      /\ \A p \in 1..Len(spec) : \E pr \in set : tok(pr) = spec[p]

\* C12: every specification gen_experiments yields is a sorted token
\* sequence holding, for each (name, value) of the selected tuples, no
\* token for None, "-name" for True, "-noname" for False and "-name=value"
\* otherwise, so that it has as many tokens as selected values not None.
C12_TokenRule == \A n \in 1..Len(e_out) : C12_SpecOk(n)

\* a = [False, "1"] with (n, g) = [(None, True)] was enumerated to the end
C12_Witness ==
  /\ e_pc = "stopped"
  /\ e_out = << << <<"-", "g">>, <<"-", "n", "o", "a">> >>,
                << <<"-", "a", "=", "1">>, <<"-", "g">> >> >>

\* the (sample, specification) pairs main has derived a destination for,
\* the specifications being those yielded so far
JobPairs == (0..(NumSamples - 1)) \X (1..Len(e_out))

\* out for a (sample, specification) pair
OutOf(pr) == OutName(e_out[pr[2]], pr[1])

NoRepeatedValue(raw) ==
  /\ \A x, y \in NamePositions(raw) :
       x # y => ItemsOf(raw)[x[1]].k[x[2]] # ItemsOf(raw)[y[1]].k[y[2]]
  /\ \A m \in 1..Len(raw) :
       \A a, b \in 1..Len(ItemsOf(raw)[m].values) :
         a # b => ItemsOf(raw)[m].values[a] # ItemsOf(raw)[m].values[b]

====
